---- MODULE Spec2Model ----
(***************************************************************************)
(* Model of dtale_utils.py: a CLI that unzips an archive of parquet files, *)
(* starts one D-Tale session per selected file, prints the session URLs,   *)
(* opens the last one in a browser and idles until SIGINT.                 *)
(*                                                                         *)
(* Strings are sequences of character codes (code points), so that the     *)
(* character classes of the regular expression, str.split, str.strip and   *)
(* os.path.splitext are computed the way the code computes them.           *)
(***************************************************************************)
EXTENDS Integers, Sequences, FiniteSets, TLC

\* ---------------------------------------------------------------- bounds
\* longest os.listdir() result the model enumerates
MaxFiles == 3
\* number of time.sleep(1) rounds of the wait loop the model counts
MaxTicks == 2
\* longest input string given to replace_non_alphanumeric_with_space
MaxLen == 3

\* ------------------------------------------------------- string helpers
\* first index k >= pos at which the sequence of booleans b is TRUE, or 0
RECURSIVE FindFrom(_, _)
FindFrom(b, pos) ==
    IF pos > Len(b) THEN 0
    ELSE IF b[pos] THEN pos
    ELSE FindFrom(b, pos + 1)

\* last index k <= pos at which the sequence of booleans b is TRUE, or 0
RECURSIVE RFindFrom(_, _)
RFindFrom(b, pos) ==
    IF pos < 1 THEN 0
    ELSE IF b[pos] THEN pos
    ELSE RFindFrom(b, pos - 1)

\* s[from:] of Python, with from a 1-based index
Tail_(s, from) == SubSeq(s, from, Len(s))

\* str.endswith
EndsWith(s, suffix) ==
    /\ Len(s) >= Len(suffix)
    /\ SubSeq(s, Len(s) - Len(suffix) + 1, Len(s)) = suffix

\* ------------------------------------- replace_non_alphanumeric_with_space
\* the class [^a-zA-Z0-9] without the digits: a plausible slip in the pattern
PatternMatchesNoDigits(c) ==
    ~ (c \in 97..122 \/ c \in 65..90)

\* pattern = r'[^a-zA-Z0-9]': does the one-character class match c
PatternMatches(c) ==
    ~ (c \in 97..122 \/ c \in 65..90 \/ c \in 48..57)

\* a replacement of two spaces instead of one
ReplTwoSpaces == <<32, 32>>

\* the replacement string ' ' of re.sub
Repl == <<32>>

\* re.sub(pattern, repl, s): scan from pos, copy the text up to the next
\* match, emit the replacement, go on after the match
RECURSIVE re_sub(_, _)
re_sub(s, pos) ==
    LET m == FindFrom([k \in DOMAIN s |-> PatternMatches(s[k])], pos)
    IN  IF m = 0 THEN Tail_(s, pos)
        ELSE SubSeq(s, pos, m - 1) \o Repl \o re_sub(s, m + 1)

replace_non_alphanumeric_with_space(s) == re_sub(s, 1)

\* ------------------------------------------------------- process_symbols
\* the absent option value (Python None) and a present one
None == <<>>
Some(x) == <<x>>

\* str.isspace for one character: the characters str.strip() removes
IsSpace(c) ==
    \/ c \in 9..13
    \/ c \in 28..32
    \/ c \in {133, 160, 5760, 8232, 8233, 8239, 8287, 12288}
    \/ c \in 8192..8202

\* str.split(sep) for a one-character separator: always at least one item
RECURSIVE split(_, _)
split(s, sep) ==
    LET k == FindFrom([n \in DOMAIN s |-> s[n] = sep], 1)
    IN  IF k = 0 THEN <<s>>
        ELSE <<SubSeq(s, 1, k - 1)>> \o split(Tail_(s, k + 1), sep)

\* str.strip() without arguments
strip(s) ==
    LET keep == [k \in DOMAIN s |-> ~ IsSpace(s[k])]
        a == FindFrom(keep, 1)
        b == RFindFrom(keep, Len(s))
    IN  IF a = 0 THEN <<>> ELSE SubSeq(s, a, b)

\* the click callback of --symbols; 44 is ','
process_symbols(v) ==
    IF v = None THEN {}
    ELSE LET items == split(v[1], 44)
         IN  {strip(items[k]) : k \in DOMAIN items}

\* ------------------------------------------------------ os.path.splitext
\* posixpath.splitext(p)[0]: sep is '/' (47), extsep is '.' (46); leading
\* dots of the last component belong to the root
splitext_root(p) ==
    LET sepIndex == RFindFrom([k \in DOMAIN p |-> p[k] = 47], Len(p))
        dotIndex == RFindFrom([k \in DOMAIN p |-> p[k] = 46], Len(p))
    IN  IF /\ dotIndex > sepIndex
           /\ FindFrom([k \in 1..(dotIndex - 1) |-> p[k] # 46],
                       sepIndex + 1) # 0
        THEN SubSeq(p, 1, dotIndex - 1)
        ELSE p

\* ----------------------------------------------- zipped_parquet_to_dtale
\* '.parquet'
DotParquet == <<46, 112, 97, 114, 113, 117, 101, 116>>

\* the name of the TemporaryDirectory, a stand-in for the random name
extract_dir == <<47, 116, 109, 112>>

\* f.endswith('.parquet')
IsParquet(f) == EndsWith(f, DotParquet)

\* os.path.join(extract_dir, file_name)
path_join(dir, file_name) == dir \o <<47>> \o file_name

\* the filter test without the "empty filter means all" half
SkipsWhenNotMember(symbols_to_include, symbol_name) ==
    symbol_name \notin symbols_to_include

\* (len(symbols_to_include) > 0) and (symbol_name not in symbols_to_include)
Skips(symbols_to_include, symbol_name) ==
    /\ Cardinality(symbols_to_include) > 0
    /\ symbol_name \notin symbols_to_include

\* ----------------------------------------------------------------- state
VARIABLES
    value,               \* the --symbols option as click passes it: None or Some(text)
    extracted,           \* what os.listdir(extract_dir) returns once the archive is extracted
    pc,                  \* position of the main thread
    symbols,             \* main's parameter symbols, the result of the callback
    tmpExists,           \* the TemporaryDirectory exists on the filesystem
    parquet_files,       \* local of zipped_parquet_to_dtale
    i,                   \* position of the launch loop in parquet_files (1-based)
    ds,                  \* local of zipped_parquet_to_dtale: the handles collected
    main_DTYPE_SESSIONS, \* the name DTYPE_SESSIONS as bound inside main (a local)
    DTYPE_SESSIONS,      \* the module-level list DTYPE_SESSIONS
    j,                   \* position of the URL printing in main_DTYPE_SESSIONS
    started,             \* the sessions dtale has started: handle h is started[h]
    kills,               \* kills[h]: the kill() calls handle h has received
    events,              \* session starts, printed URLs, open_browser calls, entering the wait loop
    error,               \* the uncaught exception that ended the process, or None
    exitStatus,          \* the exit status of the process, or None while it runs
    interruptedAt,       \* where the main thread was when SIGINT arrived, or None
    ticks,               \* completed time.sleep(1) rounds
    san_pc,              \* position of the sanitizer harness
    san_in,              \* string given to replace_non_alphanumeric_with_space
    san_out,             \* its result
    san_twice            \* the result of applying it to san_out

prog_vars == <<value, extracted, pc, symbols, tmpExists, parquet_files, i, ds,
               main_DTYPE_SESSIONS, DTYPE_SESSIONS, j, started, kills, events,
               error, exitStatus, interruptedAt, ticks>>
san_vars == <<san_pc, san_in, san_out, san_twice>>
vars == <<prog_vars, san_vars>>

\* ---------------------------------------------------------------- inputs
\* file names an archive may hold: 'A.parquet', 'B.parquet', 'C.csv',
\* 'I_py.parquet' (the docstring's symbol) and the hidden file '.parquet'
FileNames ==
    { <<65>> \o DotParquet,
      <<66>> \o DotParquet,
      <<67, 46, 99, 115, 118>>,
      <<73, 95, 112, 121>> \o DotParquet,
      DotParquet }

\* directory listings: distinct names in any order
Listings ==
    { s \in UNION { [1..n -> FileNames] : n \in 0..MaxFiles } :
        \A a, b \in DOMAIN s : a # b => s[a] # s[b] }

\* --symbols values: absent, '', 'A', 'I_py, A', 'B,' and '.parquet'
SymbolArgs ==
    { None,
      Some(<<>>),
      Some(<<65>>),
      Some(<<73, 95, 112, 121, 44, 32, 65>>),
      Some(<<66, 44>>),
      Some(DotParquet) }

\* characters at the edges of the classes a-z, A-Z, 0-9, and a space
SanAlphabet == {32, 47, 48, 57, 58, 64, 65, 90, 91, 96, 97, 122, 123}

SanInputs == UNION { [1..n -> SanAlphabet] : n \in 0..MaxLen }

\* ------------------------------------------------------------ initial state
ProgIdle ==
    /\ symbols = {}
    /\ tmpExists = FALSE
    /\ parquet_files = <<>>
    /\ i = 1
    /\ ds = <<>>
    /\ main_DTYPE_SESSIONS = <<>>
    /\ DTYPE_SESSIONS = <<>>
    /\ j = 1
    /\ started = <<>>
    /\ kills = <<>>
    /\ events = <<>>
    /\ error = None
    /\ exitStatus = None
    /\ interruptedAt = None
    /\ ticks = 0

SanIdle ==
    /\ san_out = <<>>
    /\ san_twice = <<>>

\* the process has imported the module (line 14: DTYPE_SESSIONS = [], line 24:
\* the handler is installed) and click is about to run the callback
Init ==
    /\ value \in SymbolArgs
    /\ extracted \in Listings
    /\ pc = "cli"
    /\ ProgIdle
    /\ san_pc = "off"
    /\ san_in = <<>>
    /\ SanIdle

\* --------------------------------------------------------------- actions
Event(kind, h) == [kind |-> kind, h |-> h]

\* click runs the --symbols callback and then calls main
ProcessSymbolsCallback ==
    /\ pc = "cli"
    /\ symbols' = process_symbols(value)
    /\ pc' = "main"
    /\ UNCHANGED <<value, extracted, tmpExists, parquet_files, i, ds,
                   main_DTYPE_SESSIONS, DTYPE_SESSIONS, j, started, kills,
                   events, error, exitStatus, interruptedAt, ticks, san_vars>>

\* main echoes, calls zipped_parquet_to_dtale, which enters the
\* TemporaryDirectory context
EnterTemporaryDirectory ==
    /\ pc = "main"
    /\ tmpExists' = TRUE
    /\ pc' = "extract"
    /\ UNCHANGED <<value, extracted, symbols, parquet_files, i, ds,
                   main_DTYPE_SESSIONS, DTYPE_SESSIONS, j, started, kills,
                   events, error, exitStatus, interruptedAt, ticks, san_vars>>

\* an exception leaves the with block (the directory is removed) and then
\* main, uncaught: the interpreter exits with status 1
Raise(exc) ==
    /\ error' = Some(exc)
    /\ tmpExists' = FALSE
    /\ pc' = "crashed"
    /\ exitStatus' = Some(1)

\* zipfile.ZipFile(...) and extractall succeed
ExtractAll ==
    /\ pc = "extract"
    /\ pc' = "listdir"
    /\ UNCHANGED <<value, extracted, symbols, tmpExists, parquet_files, i, ds,
                   main_DTYPE_SESSIONS, DTYPE_SESSIONS, j, started, kills,
                   events, error, exitStatus, interruptedAt, ticks, san_vars>>

\* the archive is missing or no zip file, or extractall cannot write
ExtractFails ==
    /\ pc = "extract"
    /\ Raise("ArchiveError")
    /\ UNCHANGED <<value, extracted, symbols, parquet_files, i, ds,
                   main_DTYPE_SESSIONS, DTYPE_SESSIONS, j, started, kills,
                   events, interruptedAt, ticks, san_vars>>

\* parquet_files = [f for f in os.listdir(extract_dir) if f.endswith('.parquet')]
ListParquetFiles ==
    /\ pc = "listdir"
    /\ parquet_files' = SelectSeq(extracted, IsParquet)
    /\ ds' = <<>>
    /\ i' = 1
    /\ pc' = "loop"
    /\ UNCHANGED <<value, extracted, symbols, tmpExists,
                   main_DTYPE_SESSIONS, DTYPE_SESSIONS, j, started, kills,
                   events, error, exitStatus, interruptedAt, ticks, san_vars>>

\* one round of the for loop that hits `continue`
LoopSkip ==
    /\ pc = "loop"
    /\ i <= Len(parquet_files)
    /\ Skips(symbols, splitext_root(parquet_files[i]))
    /\ i' = i + 1
    /\ UNCHANGED <<value, extracted, pc, symbols, tmpExists, parquet_files, ds,
                   main_DTYPE_SESSIONS, DTYPE_SESSIONS, j, started, kills,
                   events, error, exitStatus, interruptedAt, ticks, san_vars>>

\* one round of the for loop in which dtale.show_parquet returns a handle
ShowParquet ==
    /\ pc = "loop"
    /\ i <= Len(parquet_files)
    /\ ~ Skips(symbols, splitext_root(parquet_files[i]))
    /\ LET file_name == parquet_files[i]
           pth_ == path_join(extract_dir, file_name)
           symbol_name == splitext_root(file_name)
           name_ == replace_non_alphanumeric_with_space(symbol_name)
           h == Len(started) + 1
       IN  /\ started' = Append(started, [path |-> pth_, name |-> name_])
           /\ kills' = Append(kills, 0)
           /\ ds' = Append(ds, h)
           /\ events' = Append(events, Event("start", h))
    /\ i' = i + 1
    /\ UNCHANGED <<value, extracted, pc, symbols, tmpExists, parquet_files,
                   main_DTYPE_SESSIONS, DTYPE_SESSIONS, j,
                   error, exitStatus, interruptedAt, ticks, san_vars>>

\* a launch loop that catches the failure of one candidate and goes on
ShowParquetFailsIsolated ==
    /\ pc = "loop"
    /\ i <= Len(parquet_files)
    /\ ~ Skips(symbols, splitext_root(parquet_files[i]))
    /\ error' = Some("SessionStartError")
    /\ i' = i + 1
    /\ UNCHANGED <<value, extracted, pc, symbols, tmpExists, parquet_files, ds,
                   main_DTYPE_SESSIONS, DTYPE_SESSIONS, j, started, kills,
                   events, exitStatus, interruptedAt, ticks, san_vars>>

\* a launch whose failure leaves the function without the with block's cleanup
ShowParquetFailsNoCleanup ==
    /\ pc = "loop"
    /\ i <= Len(parquet_files)
    /\ ~ Skips(symbols, splitext_root(parquet_files[i]))
    /\ error' = Some("SessionStartError")
    /\ pc' = "crashed"
    /\ exitStatus' = Some(1)
    /\ UNCHANGED <<value, extracted, symbols, tmpExists, parquet_files, i, ds,
                   main_DTYPE_SESSIONS, DTYPE_SESSIONS, j, started, kills,
                   events, interruptedAt, ticks, san_vars>>

\* one round of the for loop in which dtale.show_parquet (or find_free_port)
\* raises: nothing catches it
ShowParquetFails ==
    /\ pc = "loop"
    /\ i <= Len(parquet_files)
    /\ ~ Skips(symbols, splitext_root(parquet_files[i]))
    /\ Raise("SessionStartError")
    /\ UNCHANGED <<value, extracted, symbols, parquet_files, i, ds,
                   main_DTYPE_SESSIONS, DTYPE_SESSIONS, j, started, kills,
                   events, interruptedAt, ticks, san_vars>>

\* the loop is exhausted: the with block is left and the directory removed
LeaveTemporaryDirectory ==
    /\ pc = "loop"
    /\ i > Len(parquet_files)
    /\ tmpExists' = FALSE
    /\ pc' = "return"
    /\ UNCHANGED <<value, extracted, symbols, parquet_files, i, ds,
                   main_DTYPE_SESSIONS, DTYPE_SESSIONS, j, started, kills,
                   events, error, exitStatus, interruptedAt, ticks, san_vars>>

\* main with a `global DTYPE_SESSIONS` declaration: the assignment rebinds
\* the module-level name
BindResultGlobal ==
    /\ pc = "return"
    /\ DTYPE_SESSIONS' = ds
    /\ main_DTYPE_SESSIONS' = ds
    /\ j' = 1
    /\ pc' = "print"
    /\ UNCHANGED <<value, extracted, symbols, tmpExists, parquet_files, i, ds,
                   started, kills, events, error, exitStatus, interruptedAt,
                   ticks, san_vars>>

\* return ds; DTYPE_SESSIONS = zipped_parquet_to_dtale(...) inside main,
\* which has no global declaration: the name assigned is local to main
BindResult ==
    /\ pc = "return"
    /\ main_DTYPE_SESSIONS' = ds
    /\ j' = 1
    /\ pc' = "print"
    /\ UNCHANGED <<value, extracted, symbols, tmpExists, parquet_files, i, ds,
                   DTYPE_SESSIONS, started, kills, events, error, exitStatus,
                   interruptedAt, ticks, san_vars>>

\* one element of [print(d._main_url) for d in DTYPE_SESSIONS]
PrintUrl ==
    /\ pc = "print"
    /\ j <= Len(main_DTYPE_SESSIONS)
    /\ events' = Append(events, Event("url", main_DTYPE_SESSIONS[j]))
    /\ j' = j + 1
    /\ UNCHANGED <<value, extracted, pc, symbols, tmpExists, parquet_files, i,
                   ds, main_DTYPE_SESSIONS, DTYPE_SESSIONS, started, kills,
                   error, exitStatus, interruptedAt, ticks, san_vars>>

\* DTYPE_SESSIONS[0].open_browser(): the first handle instead of the last
OpenBrowserFirst ==
    /\ pc = "print"
    /\ j > Len(main_DTYPE_SESSIONS)
    /\ main_DTYPE_SESSIONS # <<>>
    /\ events' = events \o <<Event("browser", main_DTYPE_SESSIONS[1]),
                             Event("wait", 0)>>
    /\ pc' = "wait"
    /\ UNCHANGED <<value, extracted, symbols, tmpExists, parquet_files, i, ds,
                   main_DTYPE_SESSIONS, DTYPE_SESSIONS, j, started, kills,
                   error, exitStatus, interruptedAt, ticks, san_vars>>

\* DTYPE_SESSIONS[-1].open_browser() on a non-empty list, then the
\* "Running" line and the first test of `while True`
OpenBrowser ==
    /\ pc = "print"
    /\ j > Len(main_DTYPE_SESSIONS)
    /\ main_DTYPE_SESSIONS # <<>>
    /\ events' = events \o
           <<Event("browser", main_DTYPE_SESSIONS[Len(main_DTYPE_SESSIONS)]),
             Event("wait", 0)>>
    /\ pc' = "wait"
    /\ UNCHANGED <<value, extracted, symbols, tmpExists, parquet_files, i, ds,
                   main_DTYPE_SESSIONS, DTYPE_SESSIONS, j, started, kills,
                   error, exitStatus, interruptedAt, ticks, san_vars>>

\* DTYPE_SESSIONS[-1] on an empty list raises IndexError, uncaught
OpenBrowserIndexError ==
    /\ pc = "print"
    /\ j > Len(main_DTYPE_SESSIONS)
    /\ main_DTYPE_SESSIONS = <<>>
    /\ Raise("IndexError")
    /\ UNCHANGED <<value, extracted, symbols, parquet_files, i, ds,
                   main_DTYPE_SESSIONS, DTYPE_SESSIONS, j, started, kills,
                   events, interruptedAt, ticks, san_vars>>

\* one round of `while True: time.sleep(1)`
Sleep ==
    /\ pc = "wait"
    /\ ticks < MaxTicks
    /\ ticks' = ticks + 1
    /\ UNCHANGED <<value, extracted, pc, symbols, tmpExists, parquet_files, i,
                   ds, main_DTYPE_SESSIONS, DTYPE_SESSIONS, j, started, kills,
                   events, error, exitStatus, interruptedAt, san_vars>>

\* SIGINT while the process runs: signal_handler kills every element of the
\* module-level list and calls exit(0); the SystemExit unwinds the main
\* thread (a with block it passes removes the directory) and ends the process
SignalHandler ==
    /\ pc \notin {"off", "exited", "crashed"}
    /\ kills' = [h \in DOMAIN kills |->
                   kills[h] + Cardinality({k \in DOMAIN DTYPE_SESSIONS :
                                             DTYPE_SESSIONS[k] = h})]
    /\ tmpExists' = FALSE
    /\ interruptedAt' = Some(pc)
    /\ exitStatus' = Some(0)
    /\ pc' = "exited"
    /\ UNCHANGED <<value, extracted, symbols, parquet_files, i, ds,
                   main_DTYPE_SESSIONS, DTYPE_SESSIONS, j, started, events,
                   error, ticks, san_vars>>

Next ==
    \/ ProcessSymbolsCallback
    \/ EnterTemporaryDirectory
    \/ ExtractAll
    \/ ExtractFails
    \/ ListParquetFiles
    \/ LoopSkip
    \/ ShowParquet
    \/ ShowParquetFails
    \/ LeaveTemporaryDirectory
    \/ BindResult
    \/ PrintUrl
    \/ OpenBrowser
    \/ OpenBrowserIndexError
    \/ Sleep
    \/ SignalHandler

Spec == Init /\ [][Next]_vars

\* ------------------------------------------------- the sanitizer on its own
InitSan ==
    /\ value = None
    /\ extracted = <<>>
    /\ pc = "off"
    /\ ProgIdle
    /\ san_pc = "in"
    /\ san_in \in SanInputs
    /\ SanIdle

SanitizeOnce ==
    /\ san_pc = "in"
    /\ san_out' = replace_non_alphanumeric_with_space(san_in)
    /\ san_pc' = "once"
    /\ UNCHANGED <<san_in, san_twice, prog_vars>>

SanitizeTwice ==
    /\ san_pc = "once"
    /\ san_twice' = replace_non_alphanumeric_with_space(san_out)
    /\ san_pc' = "twice"
    /\ UNCHANGED <<san_in, san_out, prog_vars>>

NextSan ==
    \/ SanitizeOnce
    \/ SanitizeTwice

SpecSan == InitSan /\ [][NextSan]_vars

\* ---------------------------------------------------------------- claims
\* a character of a-z, A-Z or 0-9
IsAlnum(c) == c \in (48..57) \cup (65..90) \cup (97..122)

\* r is s with every character outside a-z, A-Z, 0-9 turned into a space
IsSanitized(s, r) ==
    /\ Len(r) = Len(s)
    /\ \A p \in 1..Len(s) : r[p] = IF IsAlnum(s[p]) THEN s[p] ELSE 32

\* the launcher has returned to main
LauncherReturned ==
    \/ pc \in {"return", "print", "wait"}
    \/ pc = "crashed" /\ error = Some("IndexError")
    \/ pc = "exited" /\ interruptedAt \in {Some("return"), Some("print"), Some("wait")}

\* the candidates (names ending in '.parquet', in listing order) that the
\* filter lets through
Qualifying ==
    SelectSeq(SelectSeq(extracted, LAMBDA f : EndsWith(f, DotParquet)),
              LAMBDA f : symbols = {} \/ splitext_root(f) \in symbols)

\* C1: when SIGINT arrives in the wait loop, every handle the launcher
\* returned to main has received exactly one kill() and the exit status is 0.
C1_InterruptKillsEverySession ==
    (pc = "exited" /\ interruptedAt = Some("wait")) =>
        /\ \A k \in DOMAIN main_DTYPE_SESSIONS :
               kills[main_DTYPE_SESSIONS[k]] = 1
        /\ exitStatus = Some(0)

\* C2: when the launcher returns an empty sequence, main calls open_browser
\* on no handle, raises no IndexError and goes on to the wait loop.
C2_EmptyResultNoIndexError ==
    (LauncherReturned /\ ds = <<>>) =>
        /\ error # Some("IndexError")
        /\ pc # "crashed"
        /\ \A k \in DOMAIN events : events[k].kind # "browser"

\* C3: once zipped_parquet_to_dtale has been left, on any path (return, an
\* error opening or extracting the archive, an error of a session start),
\* the temporary directory does not exist.
C3_TempDirGoneOutsideLauncher ==
    pc \notin {"extract", "listdir", "loop"} => ~ tmpExists

\* C3 witness: a session start failed after an earlier one succeeded, and
\* the directory is gone.
C3_Witness ==
    /\ pc = "crashed"
    /\ error = Some("SessionStartError")
    /\ started # <<>>
    /\ ~ tmpExists

C5_SymbolsTrimmedNoEmptyItems ==
    pc \notin {"cli", "off"} =>
        /\ <<>> \notin symbols
        /\ \A s \in symbols : s = strip(s)
        /\ value \in {None, Some(<<>>)} => symbols = {}

\* C6: the result of replace_non_alphanumeric_with_space has the length of
\* its input and holds, at each position, the input's character when that
\* is in a-z, A-Z or 0-9 and a space otherwise.
C6_SanitizePositionwise ==
    san_pc \in {"once", "twice"} => IsSanitized(san_in, san_out)

\* C6 witness: an input with a character that is kept and one that is not.
C6_Witness ==
    /\ san_pc = "once"
    /\ \E p, q \in DOMAIN san_in :
          /\ IsAlnum(san_in[p])
          /\ ~ IsAlnum(san_in[q])
          /\ san_in[q] # 32

\* C7: applying replace_non_alphanumeric_with_space twice gives what
\* applying it once gives.
C7_SanitizeIdempotent ==
    san_pc = "twice" => san_twice = san_out

\* C7 witness: the second application has run on an input the first changed.
C7_Witness ==
    /\ san_pc = "twice"
    /\ san_out # san_in

\* the candidates before position n that the filter lets through
StartedBefore(n) ==
    SelectSeq(SubSeq(parquet_files, 1, n - 1),
              LAMBDA f : symbols = {} \/ splitext_root(f) \in symbols)

\* C8: when the session start of a candidate fails, the loop stops there:
\* only the qualifying candidates before it have sessions, the error leaves
\* main uncaught, no URL is printed, and no session started has received a
\* kill().
C8_StartFailureAbortsAndOrphans ==
    error = Some("SessionStartError") =>
        /\ pc = "crashed"
        /\ exitStatus = Some(1)
        /\ i <= Len(parquet_files)
        /\ Len(started) = Len(StartedBefore(i))
        /\ \A h \in DOMAIN kills : kills[h] = 0
        /\ \A k \in DOMAIN events : events[k].kind = "start"
        /\ DTYPE_SESSIONS = <<>>

\* C8 witness: the failing candidate has a started session before it and a
\* qualifying candidate after it.
C8_Witness ==
    /\ error = Some("SessionStartError")
    /\ Len(started) >= 1
    /\ \E k \in (i + 1)..Len(parquet_files) :
          symbols = {} \/ splitext_root(parquet_files[k]) \in symbols

\* what a complete run that returned the handles hs does, in order
FullRun(hs) ==
    [k \in 1..Len(hs) |-> Event("start", hs[k])]
    \o [k \in 1..Len(hs) |-> Event("url", hs[k])]
    \o <<Event("browser", hs[Len(hs)]), Event("wait", 0)>>

IsPrefix(s, t) == Len(s) <= Len(t) /\ s = SubSeq(t, 1, Len(s))

C9_Order ==
    /\ ds = <<>> => events = <<>>
    /\ ds # <<>> => IsPrefix(events, FullRun(ds))
    /\ Len(events) > Len(ds) => i > Len(parquet_files) /\ ~ tmpExists
    /\ pc = "wait" => ds # <<>> /\ events = FullRun(ds)

\* C9: the session starts come first, then the URL of every returned handle
\* in handle order, then one open_browser call on the last handle, then the
\* wait loop, which only an interrupt leaves.
C9_EventOrder ==
    /\ [] C9_Order
    /\ [][pc = "wait" /\ pc' # "wait" =>
             pc' = "exited" /\ interruptedAt' = Some("wait")]_vars

\* C9 witness: a run with two sessions that is interrupted in the wait loop
\* after sleeping.
C9_Witness ==
    /\ pc = "exited"
    /\ interruptedAt = Some("wait")
    /\ Len(main_DTYPE_SESSIONS) >= 2
    /\ ticks >= 1

\* C10: the module-level list DTYPE_SESSIONS is empty in every state.
C10_GlobalListStaysEmpty ==
    DTYPE_SESSIONS = <<>>

\* C10 witness: main holds handles in its local name in the wait loop.
C10_Witness ==
    /\ pc = "wait"
    /\ main_DTYPE_SESSIONS # <<>>
    /\ Len(started) = Len(main_DTYPE_SESSIONS)

====
